---- MODULE Spec2Model ----
(***************************************************************************)
(* Model of the NXG200 garage-door accessory (nxg200.ts): the door state   *)
(* machine it drives, the setTargetDoorState handler with its awaited      *)
(* remote command and its 12 s confirmation timer, and the 60 s            *)
(* reconciliation interval with its awaited status poll.                   *)
(*                                                                         *)
(* All callbacks run on one event loop, so each action is the code that    *)
(* runs between two suspension points (await / timer / interval).          *)
(* The state machine class itself (nxg200_state_machine) is not part of    *)
(* the sources at hand; its operations are modelled from its description.  *)
(***************************************************************************)
EXTENDS Integers, Sequences, FiniteSets, TLC

\* ---------------------------------------------------------------- bounds
\* callbacks the event loop has pending at the same time: awaited remote
\* commands, awaited polls and confirmation timers together
MaxPending == 2

\* ------------------------------------------------------------- constants
\* enum GarageDoorState { Open = 1, Closed = 2 }
Open   == 1
Closed == 2
\* a DeviceStatus that is neither Open nor Closed (or is missing)
OtherStatus == 0
Statuses == {Open, Closed, OtherStatus}

\* LastOperationTimestamp strings a Device Record can carry; NoTimestamp is
\* a record without the field
Timestamps  == {"t1", "t2"}
NoTimestamp == "none"
NaN == -1

\* new Date(ts).getTime(): epoch milliseconds of the timestamp string, NaN
\* when the string is missing or unparseable
DateGetTime(ts) ==
  CASE ts = "t1" -> 1000
    [] ts = "t2" -> 2000
    [] OTHER     -> NaN

\* the accessories the platform constructs, one per discovered device, and
\* the device record each one is constructed from
Accessories == {"A", "B"}

DeviceRecord(a) ==
  IF a = "A"
    THEN [DeviceId |-> "idA", DeviceType |-> "NexxGarage",
          ProductCode |-> "NXG200"]
    ELSE [DeviceId |-> "idB", DeviceType |-> "NexxGate",
          ProductCode |-> "NXGT1"]

\* a second argument that was left out, or passed as null
Undefined == [absent |-> "undefined"]
Null      == [absent |-> "null"]

\* arguments a caller can hand to the adapter's open/close
AdapterIds  == {"idA", "idB", "idC"}
AdapterArgs ==
  {Undefined, Null,
   [DeviceType |-> "NexxGate", ProductCode |-> "NXGT1"],
   [DeviceType |-> "Custom", ProductCode |-> "X1"]}

\* deviceMeta of accessory a
deviceMeta(a) ==
  [DeviceType |-> DeviceRecord(a).DeviceType,
   ProductCode |-> DeviceRecord(a).ProductCode]

\* variant: the adapter always sends the accessory's own metadata
clientAdapterAlwaysDefault(a, op, deviceId, devArg) ==
  <<[op |-> op, id |-> deviceId, meta |-> deviceMeta(a)]>>

\* clientAdapter.open / .close of accessory a: the remote calls it makes,
\* boundOpen(deviceId, devArg ?? deviceMeta), resp. boundClose
clientAdapter(a, op, deviceId, devArg) ==
  <<[op |-> op, id |-> deviceId,
     meta |-> IF devArg = Undefined \/ devArg = Null
                THEN deviceMeta(a) ELSE devArg]>>

\* values of the TargetDoorState characteristic written by the host
TargetValues == {"OPEN", "CLOSED"}

VARIABLES
  state,          \* fsm.state: "open" | "closed" | "stuck"
  transitioning,  \* fsm.isTransitioning()
  lastTransition, \* fsm.lastTransition (epoch ms or NaN)
  signal,         \* value last pushed to the CurrentDoorState characteristic
  inflight,       \* awaited remote commands of setTargetDoorState calls
  timers,         \* pending confirmation timers, in firing order
  polls,          \* awaited getDeviceState calls of reconciliation firings
  lastDone,       \* history: status of the last completed reconciliation run
  stale,          \* history: leading timers older than the last poll reset
  remote,         \* DeviceStatus the remote API currently reports
  peer,           \* the machine of accessory "B" (NoPeer: one device only)
  ev              \* history: the last callback that ran, with what it saw

vars == <<state, transitioning, lastTransition, signal, inflight, timers,
          polls, lastDone, stale, remote, peer, ev>>

\* ------------------------------------------------- the door state machine
\* can(direction): the transition is allowed from the current state and no
\* transition is in progress
TargetState(direction) == IF direction = "open" THEN "open" ELSE "closed"

From(direction) == {"open", "closed", "stuck"} \ {TargetState(direction)}

can(direction, st, tr) == st \in From(direction) /\ ~tr

\* resetOpen() / resetClosed() / stuck(): force the state, clear the flag
resetOpen   == [state |-> "open",   transitioning |-> FALSE]
resetClosed == [state |-> "closed", transitioning |-> FALSE]
stuck       == [state |-> "stuck",  transitioning |-> FALSE]

\* open() / close() up to the awaited remote call: the flag is raised on top
\* of the prior terminal state
fsmBegin(st) == [state |-> st, transitioning |-> TRUE]

\* the remote calls of open() / close() of accessory a's machine: the
\* adapter's operation with fsm.deviceId and no metadata
fsmCall(a, direction) ==
  clientAdapter(a, direction, DeviceRecord(a).DeviceId, Undefined)

\* open() / close() after the remote call resolved: it just returns
fsmResolved(st, tr) == [state |-> st, transitioning |-> tr]

\* open() / close() after the remote call rejected: stuck, error rethrown
fsmRejected == stuck

\* ------------------------------------------------------ resetDeviceState
\* variant: an unrecognized status is taken for a closed door
resetDeviceStateDefaultClosed(status, ts) ==
  LET r == CASE status = Open -> resetOpen
             [] OTHER         -> resetClosed
  IN [state |-> r.state, transitioning |-> r.transitioning,
      lastTransition |-> DateGetTime(ts)]

\* variant: the Closed case lacks its break and falls through to the default
resetDeviceStateFallthrough(status, ts) ==
  LET r == CASE status = Open -> resetOpen
             [] OTHER         -> stuck
  IN [state |-> r.state, transitioning |-> r.transitioning,
      lastTransition |-> DateGetTime(ts)]

\* variant: the timestamp is read from a field the record does not have
resetDeviceStateNoStamp(status, ts) ==
  LET r == CASE status = Open   -> resetOpen
             [] status = Closed -> resetClosed
             [] OTHER           -> stuck
  IN [state |-> r.state, transitioning |-> r.transitioning,
      lastTransition |-> NaN]

\* lastTransition is assigned first, then the status selects the reset
resetDeviceState(status, ts) ==
  LET r == CASE status = Open   -> resetOpen
             [] status = Closed -> resetClosed
             [] OTHER           -> stuck
  IN [state |-> r.state, transitioning |-> r.transitioning,
      lastTransition |-> DateGetTime(ts)]

\* variant: a stuck machine is reset on every poll
needsResetStuckAlways(st, status) ==
  \/ st = "open" /\ status # Open
  \/ st = "closed" /\ status # Closed
  \/ st = "stuck"

\* the three mismatch tests of the reconciliation callback
needsReset(st, status) ==
  \/ st = "open" /\ status # Open
  \/ st = "closed" /\ status # Closed
  \/ st = "stuck" /\ (status = Open \/ status = Closed)

\* -------------------------------------------------------------- helpers
Pending == Len(inflight) + Len(timers) + Len(polls)

RemoveAt(s, i) == SubSeq(s, 1, i - 1) \o SubSeq(s, i + 1, Len(s))

\* variant: the two branches test each other's direction
CommandDirectionSwapped(value) == IF value = "OPEN" THEN "close" ELSE "open"

\* the direction each branch of setTargetDoorState asks the machine for
CommandDirection(value) == IF value = "OPEN" THEN "open" ELSE "close"

MovingSignal(value) == IF value = "OPEN" THEN "Opening" ELSE "Closing"

TerminalSignal(value) == IF value = "OPEN" THEN "Open" ELSE "Closed"

\* history kept on the awaited polls: cmdSince, a command was issued since
\* the firing; prev, the status polled by the run that completed right
\* before the firing ({} when there is none or a command step came between)
MarkIssued(ps) ==
  [i \in 1..Len(ps) |-> [ps[i] EXCEPT !.cmdSince = TRUE, !.prev = {}]]

ForgetPrev(ps) == [i \in 1..Len(ps) |-> [ps[i] EXCEPT !.prev = {}]]

\* history: timers fire in the order they were set, so the timers that were
\* pending when a poll reset the machine to open/closed are the first ones
\* of the queue for as long as the machine keeps that state
StaleAfterReset(st, pending) == IF st = "stuck" THEN 0 ELSE Len(pending)

\* variant: every accessory is handed one and the same machine
fsmOfShared(a) == "A"

\* this.fsm = new FSM(): each accessory owns the machine its handlers use
fsmOf(a) == a

\* accessory "B"'s machine after a handler of accessory "A" ran: "A"'s
\* handlers write to this.fsm only
peerAfter ==
  IF fsmOf("B") = fsmOf("A")
    THEN [state |-> state', transitioning |-> transitioning',
          lastTransition |-> lastTransition']
    ELSE peer

\* the timestamp device "B" reports
PeerTimestamps == {"t2"}

\* no second accessory was constructed
NoPeer == [state |-> "none", transitioning |-> FALSE, lastTransition |-> NaN]

\* ----------------------------------------------------------------- Init
\* the constructor: resetDeviceState(accessory.context.device); the
\* CurrentDoorState characteristic has not been pushed yet
InitAccessory ==
  \E status \in Statuses, ts \in Timestamps :
    LET r == resetDeviceState(status, ts) IN
      /\ state = r.state
      /\ transitioning = r.transitioning
      /\ lastTransition = r.lastTransition
      /\ remote = status
      /\ signal = "Unset"
      /\ inflight = <<>>
      /\ timers = <<>>
      /\ polls = <<>>
      /\ lastDone = {}
      /\ stale = 0
      /\ ev = [type |-> "init", device |-> ts]

\* the platform discovered one device
Init == InitAccessory /\ peer = NoPeer

\* the platform discovered two devices and constructed "A" and "B"
TwoInit ==
  /\ InitAccessory
  /\ \E status \in Statuses, ts \in PeerTimestamps :
       peer = resetDeviceState(status, ts)

\* ---------------------------------------------------- setTargetDoorState
\* variant: the handler starts the remote command whether or not can() holds
setTargetDoorStateUnguarded(value) ==
  LET dir == CommandDirection(value)
      ok  == can(dir, state, transitioning)
      b   == fsmBegin(state)
  IN /\ Pending < MaxPending
     /\ signal' = MovingSignal(value)
     /\ state' = b.state
     /\ transitioning' = b.transitioning
     /\ inflight' = Append(inflight,
                            [value |-> value, sent |-> fsmCall("A", dir)])
     /\ timers' = timers
     /\ polls' = MarkIssued(polls)
     /\ lastDone' = {}
     /\ ev' = [type |-> "set", value |-> value, tr |-> transitioning,
               can |-> ok, issued |-> inflight' # inflight]
     /\ UNCHANGED <<lastTransition, stale, remote>>
     /\ peer' = peerAfter

\* up to its first suspension point: push OPENING/CLOSING, test can(); when
\* it holds start the remote command and await it, otherwise warn and
\* schedule the confirmation timer right away
setTargetDoorState(value) ==
  LET dir == CommandDirection(value)
      ok  == can(dir, state, transitioning)
      b   == fsmBegin(state)
  IN /\ Pending < MaxPending
     /\ signal' = MovingSignal(value)
     /\ IF ok
          THEN /\ state' = b.state
               /\ transitioning' = b.transitioning
               /\ inflight' = Append(inflight,
                                      [value |-> value, sent |-> fsmCall("A", dir)])
               /\ timers' = timers
               /\ polls' = MarkIssued(polls)
               /\ lastDone' = {}
          ELSE /\ timers' = Append(timers, [val |-> TerminalSignal(value),
                                            cmd |-> FALSE])
               /\ UNCHANGED <<state, transitioning, inflight, polls, lastDone>>
     /\ ev' = [type |-> "set", value |-> value, tr |-> transitioning,
               can |-> ok, issued |-> inflight' # inflight]
     /\ UNCHANGED <<lastTransition, stale, remote>>
     /\ peer' = peerAfter

\* the awaited fsm.open()/fsm.close() resolved: schedule the timer
commandResolved(i) ==
  LET value == inflight[i].value
      r     == fsmResolved(state, transitioning)
  IN /\ inflight' = RemoveAt(inflight, i)
     /\ state' = r.state
     /\ transitioning' = r.transitioning
     /\ timers' = Append(timers, [val |-> TerminalSignal(value),
                                  cmd |-> TRUE])
     /\ polls' = ForgetPrev(polls)
     /\ lastDone' = {}
     /\ ev' = [type |-> "resolved", value |-> value]
     /\ UNCHANGED <<lastTransition, signal, stale, remote>>
     /\ peer' = peerAfter

\* variant: the catch block does not push STOPPED
catchBlockNoPush(m, cur) ==
  [state |-> stuck.state, transitioning |-> stuck.transitioning,
   signal |-> cur, thrown |-> FALSE]

\* variant: the catch block rethrows the error to the host
catchBlockRethrow(m, cur) ==
  [state |-> stuck.state, transitioning |-> stuck.transitioning,
   signal |-> "Stopped", thrown |-> TRUE]

\* the catch block: log, fsm.stuck(), push STOPPED, and fall off the end of
\* the handler (thrown: whether the handler ends by throwing); m is the
\* machine as the rejected call left it, cur the signal pushed so far
catchBlock(m, cur) ==
  [state |-> stuck.state, transitioning |-> stuck.transitioning,
   signal |-> "Stopped", thrown |-> FALSE]

\* the awaited fsm.open()/fsm.close() rejected: the machine went to stuck
\* and rethrew, and the catch block runs
commandRejected(i) ==
  LET value == inflight[i].value
      r     == catchBlock(fsmRejected, signal)
  IN /\ inflight' = RemoveAt(inflight, i)
     /\ state' = r.state
     /\ transitioning' = r.transitioning
     /\ signal' = r.signal
     /\ polls' = ForgetPrev(polls)
     /\ lastDone' = {}
     /\ stale' = 0
     /\ ev' = [type |-> "rejected", value |-> value, pending |-> timers,
               thrown |-> r.thrown]
     /\ UNCHANGED <<lastTransition, timers, remote>>
     /\ peer' = peerAfter

\* ----------------------------------------------------- confirmation timer
\* variant: the callback looks at the machine and drops the confirmation
\* when no transition is in progress
timerFiredIfTransitioning ==
  /\ timers # <<>>
  /\ signal' = IF transitioning THEN Head(timers).val ELSE signal
  /\ timers' = Tail(timers)
  /\ stale' = IF stale > 0 THEN stale - 1 ELSE 0
  /\ ev' = [type |-> "timer", val |-> Head(timers).val,
            cmd |-> Head(timers).cmd, stale |-> stale > 0]
  /\ UNCHANGED <<state, transitioning, lastTransition, inflight, polls,
                 lastDone, remote>>
  /\ peer' = peerAfter

\* setTimeout callbacks of equal delay fire in the order they were set
timerFired ==
  /\ timers # <<>>
  /\ signal' = Head(timers).val
  /\ timers' = Tail(timers)
  /\ stale' = IF stale > 0 THEN stale - 1 ELSE 0
  /\ ev' = [type |-> "timer", val |-> Head(timers).val,
            cmd |-> Head(timers).cmd, stale |-> stale > 0]
  /\ UNCHANGED <<state, transitioning, lastTransition, inflight, polls,
                 lastDone, remote>>
  /\ peer' = peerAfter

\* --------------------------------------------------- reconciliation loop
\* the setInterval callback up to its await: skip while transitioning,
\* otherwise start the poll
reconcileFired ==
  /\ IF transitioning
       THEN /\ ev' = [type |-> "reconSkip"]
            /\ polls' = polls
       ELSE /\ Pending < MaxPending
            /\ polls' = Append(polls, [cmdSince |-> FALSE, prev |-> lastDone])
            /\ ev' = [type |-> "reconPoll"]
  /\ UNCHANGED <<state, transitioning, lastTransition, signal, inflight,
                 timers, lastDone, stale, remote>>
  /\ peer' = peerAfter

\* the awaited getDeviceState resolved with the status the remote reports
reconcilePolled(i, ts) ==
  LET p       == polls[i]
      status  == remote
      applied == needsReset(state, status)
      r       == resetDeviceState(status, ts)
  IN /\ polls' = ForgetPrev(RemoveAt(polls, i))
     /\ lastDone' = IF p.cmdSince THEN {} ELSE {status}
     /\ IF applied
          THEN /\ state' = r.state
               /\ transitioning' = r.transitioning
               /\ lastTransition' = r.lastTransition
               /\ stale' = StaleAfterReset(r.state, timers)
          ELSE UNCHANGED <<state, transitioning, lastTransition, stale>>
     /\ ev' = [type |-> "reconDone", applied |-> applied,
               device |-> IF applied THEN ts ELSE NoTimestamp,
               st |-> state, tr |-> transitioning,
               cmdSince |-> p.cmdSince, prev |-> p.prev,
               changed |-> <<state', transitioning', lastTransition'>>
                           # <<state, transitioning, lastTransition>>]
     /\ UNCHANGED <<signal, inflight, timers, remote>>
     /\ peer' = peerAfter

\* the awaited getDeviceState rejected: the callback has no try/catch, so
\* its promise rejects with nobody handling it and the machine is left alone
reconcileFailed(i) ==
  /\ polls' = RemoveAt(polls, i)
  /\ ev' = [type |-> "pollRejected", unhandled |-> TRUE]
  /\ UNCHANGED <<state, transitioning, lastTransition, signal, inflight,
                 timers, lastDone, stale, remote>>
  /\ peer' = peerAfter

\* ------------------------------------------------------ characteristic reads
\* getCurrentDoorState: the machine's state, read as moving while the
\* transitioning flag is up
getCurrentDoorState(st, tr) ==
  CASE st = "open"   -> IF tr THEN "Opening" ELSE "Open"
    [] st = "closed" -> IF tr THEN "Closing" ELSE "Closed"
    [] OTHER         -> "Stopped"

\* getObstructionDetected
getObstructionDetected(st) == st = "stuck"

\* ------------------------------------------------------------ environment
\* the physical door / the remote service changes what it reports
remoteChanged(status) ==
  /\ status # remote
  /\ remote' = status
  /\ ev' = [type |-> "remote"]
  /\ UNCHANGED <<state, transitioning, lastTransition, signal, inflight,
                 timers, polls, lastDone, stale, peer>>

Next ==
  \/ \E value \in TargetValues : setTargetDoorState(value)
  \/ \E i \in 1..Len(inflight) : commandResolved(i)
  \/ \E i \in 1..Len(inflight) : commandRejected(i)
  \/ timerFired
  \/ reconcileFired
  \/ \E i \in 1..Len(polls), ts \in Timestamps \cup {NoTimestamp} :
       reconcilePolled(i, ts)
  \/ \E i \in 1..Len(polls) : reconcileFailed(i)
  \/ \E status \in Statuses : remoteChanged(status)

Spec == Init /\ [][Next]_vars

\* the event loop runs every due timer callback
FairSpec == Spec /\ WF_vars(timerFired)

\* the interval keeps firing, awaited remote calls settle and polls succeed
\* again and again
HealSpec ==
  /\ Spec
  /\ WF_vars(timerFired)
  /\ WF_vars(reconcileFired)
  /\ WF_vars(\E i \in 1..Len(inflight) : commandResolved(i) \/ commandRejected(i))
  /\ SF_vars(\E i \in 1..Len(polls), ts \in Timestamps \cup {NoTimestamp} :
               reconcilePolled(i, ts))

\* ------------------------------------------------------------ two devices
\* accessory "B"'s setTargetDoorState issues a command through its own
\* machine and adapter
peerCommand(value) ==
  LET dir == CommandDirection(value) IN
    /\ peer # NoPeer
    /\ can(dir, peer.state, peer.transitioning)
    /\ peer' = [peer EXCEPT !.state = fsmBegin(peer.state).state,
                            !.transitioning = fsmBegin(peer.state).transitioning]
    /\ ev' = [type |-> "peer", sent |-> fsmCall("B", dir)]
    /\ UNCHANGED <<state, transitioning, lastTransition, signal, inflight,
                   timers, polls, lastDone, stale, remote>>

\* accessory "B"'s command rejected: its catch block ran
peerRejected ==
  /\ peer # NoPeer
  /\ peer.transitioning
  /\ peer' = [peer EXCEPT !.state = catchBlock(fsmRejected, "Unset").state,
                          !.transitioning =
                             catchBlock(fsmRejected, "Unset").transitioning]
  /\ ev' = [type |-> "peer", sent |-> <<>>]
  /\ UNCHANGED <<state, transitioning, lastTransition, signal, inflight,
                 timers, polls, lastDone, stale, remote>>

\* accessory "B"'s reconciliation polled a status that disagrees with its
\* machine
peerReconciled(status, ts) ==
  /\ peer # NoPeer
  /\ ~peer.transitioning
  /\ needsReset(peer.state, status)
  /\ peer' = resetDeviceState(status, ts)
  /\ ev' = [type |-> "peer", sent |-> <<>>]
  /\ UNCHANGED <<state, transitioning, lastTransition, signal, inflight,
                 timers, polls, lastDone, stale, remote>>

TwoNext ==
  \/ Next
  \/ \E value \in TargetValues : peerCommand(value)
  \/ peerRejected
  \/ \E status \in Statuses, ts \in PeerTimestamps : peerReconciled(status, ts)

TwoSpec == TwoInit /\ [][TwoNext]_vars

\* ------------------------------------------------------ adapter on its own
\* a caller invokes clientAdapter.open / .close of the accessory directly
adapterCalled(op, deviceId, devArg) ==
  /\ ev' = [type |-> "adapter", op |-> op, id |-> deviceId, arg |-> devArg,
            sent |-> clientAdapter("A", op, deviceId, devArg)]
  /\ UNCHANGED <<state, transitioning, lastTransition, signal, inflight,
                 timers, polls, lastDone, stale, remote, peer>>

AdapterNext ==
  \E op \in {"open", "close"}, deviceId \in AdapterIds, devArg \in AdapterArgs :
    adapterCalled(op, deviceId, devArg)

AdapterSpec == Init /\ [][AdapterNext]_vars

\* =================================================================== claims
\* the local state that agrees with a polled status
LocalOf(status) ==
  CASE status = Open   -> "open"
    [] status = Closed -> "closed"
    [] OTHER           -> "stuck"

\* C1: a confirmation timer that was pending when a poll reset the machine
\* to open/closed never pushes the opposite terminal value while the machine
\* still holds the polled state.
C1_NoStaleContradiction ==
  (ev.type = "timer" /\ ev.stale) =>
    /\ (state = "open" => signal # "Closed")
    /\ (state = "closed" => signal # "Open")

\* C2: a reconciliation run never applies resetDeviceState at a moment when
\* transitioning is true.
C2_NoCorrectionWhileTransitioning ==
  (ev.type = "reconDone" /\ ev.applied) => ~ev.tr

C4_OneCommandInFlight ==
  /\ (ev.type = "set" /\ ev.issued) => (ev.can /\ ~ev.tr)
  /\ Len(inflight) <= 1

\* C5: when a rejected remote command has been handled the machine is stuck
\* and not transitioning, the signal is Stopped and no confirmation timer
\* was added.
C5_RejectedCommandIsStuck ==
  ev.type = "rejected" =>
    /\ state = "stuck"
    /\ ~transitioning
    /\ signal = "Stopped"
    /\ timers = ev.pending

C5_Witness ==
  ev.type = "rejected" /\ ev.value = "OPEN" /\ signal = "Stopped"

\* C6: transitioning is true as soon as a command is issued; a firing
\* confirmation timer sets the signal to its terminal value whatever the
\* machine holds; and every confirmation timer scheduled after a successful
\* command eventually fires and sets the signal to Open, resp. Closed.
C6_ConfirmationFollowsCommand ==
  /\ []((ev.type = "set" /\ ev.issued) => transitioning)
  /\ [](ev.type = "timer" => signal = ev.val)
  /\ \A v \in {"Open", "Closed"} :
       (\E i \in 1..Len(timers) : timers[i].cmd /\ timers[i].val = v)
         ~> (ev.type = "timer" /\ ev.cmd /\ ev.val = v /\ signal = v)

C6_Witness ==
  /\ ev.type = "timer" /\ ev.cmd /\ ev.val = "Open" /\ signal = "Open"
  /\ state = "closed" /\ transitioning

\* C7: every pending confirmation timer was scheduled after a remote command
\* that was issued for its request and succeeded.
C7_TimerOnlyAfterSuccess ==
  \A i \in 1..Len(timers) : timers[i].cmd

\* C8: transitioning is true only while a command is awaited or the
\* confirmation timer of a successful command is still pending.
C8_TransitioningOnlyDuringCommand ==
  transitioning =>
    \/ inflight # <<>>
    \/ \E i \in 1..Len(timers) : timers[i].cmd

\* C9: a reconciliation run during which no command was issued leaves the
\* machine in the state that agrees with the polled status and not
\* transitioning; when it applied a correction from a record carrying a
\* timestamp, lastTransition is the instant of that timestamp.
C9_ReconciliationAgrees ==
  (ev.type = "reconDone" /\ ~ev.cmdSince) =>
    /\ state = LocalOf(remote)
    /\ ~transitioning
    /\ (ev.applied /\ ev.device = "t1" => lastTransition = 1000)
    /\ (ev.applied /\ ev.device = "t2" => lastTransition = 2000)

C9_Witness ==
  /\ ev.type = "reconDone" /\ ~ev.cmdSince /\ ev.applied
  /\ ev.st = "open" /\ state = "closed" /\ ev.device = "t2"
  /\ lastTransition = 2000

\* C10: a reconciliation run that follows a completed run with the same
\* polled status, with no command step (issue, return or failure) since the
\* first one fired, applies no reset and changes nothing of the machine; a
\* run that finds local and remote in agreement does the same.
C10_ReconciliationIdempotent ==
  ev.type = "reconDone" =>
    /\ (ev.prev = {remote} => (~ev.applied /\ ~ev.changed))
    /\ (ev.st = LocalOf(remote) => (~ev.applied /\ ~ev.changed))

C10_Witness ==
  /\ ev.type = "reconDone" /\ ev.prev = {remote} /\ ~ev.applied
  /\ remote = OtherStatus /\ state = "stuck"

\* C11: if from some point on no command is requested and the remote status
\* stays Open (resp. Closed), then from some point on the local state is
\* open (resp. closed), whatever state the machine drifted to.
C11_DriftSelfHeals ==
  \A s \in {Open, Closed} :
    <>[](remote = s /\ ev.type # "set") => <>[](state = LocalOf(s))

\* C12: the constructor sets lastTransition from its device record; after
\* that lastTransition changes only in a reconciliation run that applies a
\* reset, and then to the instant of the polled record's timestamp; issuing
\* a command, its return, its caught failure and a firing timer leave it.
C12_TimestampOnlyFromRemote ==
  /\ (ev.type = "init" =>
        /\ (ev.device = "t1" => lastTransition = 1000)
        /\ (ev.device = "t2" => lastTransition = 2000))
  /\ [][lastTransition' # lastTransition =>
          /\ ev'.type = "reconDone" /\ ev'.applied
          /\ (ev'.device = "t1" => lastTransition' = 1000)
          /\ (ev'.device = "t2" => lastTransition' = 2000)
          /\ (ev'.device = NoTimestamp => lastTransition' = NaN)]_vars

C12_Witness ==
  /\ ev.type = "reconDone" /\ ev.applied /\ ev.changed
  /\ ev.st = "stuck" /\ ev.device = "t1" /\ lastTransition = 1000

\* C13: the machine is constructed stuck only from a device record whose
\* status is neither Open nor Closed, and it moves into stuck only when a
\* command failure is caught or a reconciliation run applies a reset for
\* such a status; a returning command and a firing timer never do.
C13_StuckOnlyFromFailureOrUnknown ==
  /\ (state = "stuck" => remote = OtherStatus)
  /\ [][(state' = "stuck" /\ state # "stuck") =>
          \/ ev'.type = "rejected"
          \/ /\ ev'.type = "reconDone" /\ ev'.applied
             /\ remote = OtherStatus]_vars

C13_Witness ==
  /\ ev.type = "reconDone" /\ ev.applied /\ ev.st = "closed"
  /\ state = "stuck" /\ remote = OtherStatus

\* C14: after any rejected remote call, a command or a reconciliation poll,
\* the machine is stuck and not transitioning, and the rejection was handled.
C14_FailuresDegradeToStuck ==
  /\ (ev.type = "rejected" => (state = "stuck" /\ ~transitioning))
  /\ (ev.type = "pollRejected" =>
        (state = "stuck" /\ ~transitioning /\ ~ev.unhandled))

\* C15: a request dispatches at most one remote command and only in its own
\* first step; when the command is rejected the call is dropped, not made
\* again, and the handler ends without throwing to the host.
C15_FailureAbsorbedNoRetry ==
  /\ [](ev.type = "rejected" => ~ev.thrown)
  /\ [][/\ Len(inflight') > Len(inflight) =>
             (ev'.type = "set" /\ Len(inflight') = Len(inflight) + 1)
        /\ ev'.type = "rejected" => Len(inflight') = Len(inflight) - 1]_vars

C15_Witness ==
  /\ ev.type = "rejected" /\ ev.value = "CLOSED" /\ ~ev.thrown
  /\ inflight = <<>> /\ state = "stuck"

\* C16: a call of the adapter makes exactly one remote call, of the same
\* operation and with the same id; with the metadata left out it carries the
\* accessory's own {DeviceType, ProductCode}, with metadata supplied it
\* carries that metadata unchanged; the call changes nothing else.
C16_AdapterForwards ==
  /\ [](ev.type = "adapter" =>
          /\ Len(ev.sent) = 1
          /\ ev.sent[1].op = ev.op
          /\ ev.sent[1].id = ev.id
          /\ (ev.arg = Undefined =>
                ev.sent[1].meta = [DeviceType |-> "NexxGarage",
                                   ProductCode |-> "NXG200"])
          /\ (ev.arg \notin {Undefined, Null} => ev.sent[1].meta = ev.arg))
  /\ [][ev'.type = "adapter" =>
          UNCHANGED <<state, transitioning, lastTransition, signal,
                      inflight, timers, polls>>]_vars

C16_Witness ==
  /\ ev.type = "adapter" /\ ev.op = "close" /\ ev.id = "idB"
  /\ ev.arg = [DeviceType |-> "Custom", ProductCode |-> "X1"]
  /\ ev.sent[1].meta = ev.arg

\* C17: with two devices, no command, command failure, confirmation timer or
\* reconciliation firing of accessory "A" changes the state, transitioning
\* flag or lastTransition of accessory "B"'s machine, and every command of
\* "A" is dispatched with "A"'s device id and "A"'s default metadata.
C17_DevicesIndependent ==
  /\ [][ev'.type # "peer" => peer' = peer]_vars
  /\ [](\A i \in 1..Len(inflight) :
          inflight[i].sent =
            <<[op |-> CommandDirection(inflight[i].value), id |-> "idA",
               meta |-> [DeviceType |-> "NexxGarage",
                         ProductCode |-> "NXG200"]]>>)

C17_Witness ==
  /\ ev.type = "rejected" /\ state = "stuck"
  /\ peer.state = "open" /\ peer.transitioning /\ peer.lastTransition = 2000

\* C18: while the only command in flight is an open command the value read
\* through getCurrentDoorState is never Closing, and while it is a close
\* command the value read is never Opening.
C18_ReadMatchesCommand ==
  (transitioning /\ Len(inflight) = 1) =>
     /\ (inflight[1].value = "OPEN" =>
           getCurrentDoorState(state, transitioning) # "Closing")
     /\ (inflight[1].value = "CLOSED" =>
           getCurrentDoorState(state, transitioning) # "Opening")

\* C19: once a command failure left the machine stuck with the signal at
\* Stopped, no step that leaves the machine stuck (ObstructionDetected
\* still true) moves the signal to Open or Closed.
C19_NoTerminalSignalWhileStuck ==
  [][(/\ getObstructionDetected(state) /\ signal = "Stopped"
      /\ getObstructionDetected(state'))
       => signal' \notin {"Open", "Closed"}]_vars

\* C20: a setTargetDoorState request whose direction the machine cannot take
\* (target already reached, or a command in flight) issues no remote call
\* and leaves state, transitioning and lastTransition as they were.
C20_RefusedRequestChangesNothing ==
  [][\A value \in TargetValues :
       (/\ ev'.type = "set" /\ ev'.value = value
        /\ ~can(CommandDirection(value), state, transitioning))
         => /\ inflight' = inflight
            /\ state' = state
            /\ transitioning' = transitioning
            /\ lastTransition' = lastTransition]_vars

C20_Witness ==
  /\ ev.type = "set" /\ ev.value = "OPEN" /\ ~ev.can /\ ev.tr
  /\ Len(inflight) = 1 /\ inflight[1].value = "CLOSED"
  /\ state = "open" /\ transitioning

====
